---- MODULE Spec2Model ----
(***************************************************************************)
(* Model of backend/server.js: the GET /api/prime-data handler, the        *)
(* reconciliation run (processCommunityData), the member pager             *)
(* (fetchMembersBySlug) and the onboarding merge (updateOnboardingData)    *)
(* over the two Mongo collections PrimeData and CommunityData.             *)
(*                                                                         *)
(* One action is one turn of the JavaScript event loop: the code that runs *)
(* between the resolution of one awaited promise and the next await.  The  *)
(* effect of a store operation is taken at the step that resumes from it.  *)
(* Strings that the code splits are sequences of one-character strings.    *)
(***************************************************************************)
EXTENDS Integers, Sequences, FiniteSets, TLC

\* ------------------------------------------------------------------ bounds
MaxFaults == 1      \* upstream / store failures injected in one behaviour
MaxRuns == 1        \* requests served one after another in one behaviour
MaxPlan == 3        \* calls of one pull whose outcome is chosen
MaxArrivals == 3    \* requests received in a behaviour with overlapping requests
MaxMembers == 2     \* members passed to a merge that is called on its own
MaxName == 4        \* characters of a group name the upstream may send

\* ------------------------------------------------------------ model values
Reqs == {1, 2}                        \* handler invocations that may overlap
Junk == "junk"                        \* array element that is not a member record

\* ------------------------------------------------- pure string operations
\* String.prototype.split(sep) for a non-empty separator, scanning from i.
RECURSIVE SplitFrom(_, _, _, _)
SplitFrom(s, sep, i, cur) ==
  IF i > Len(s) THEN <<cur>>
  ELSE IF i + Len(sep) - 1 <= Len(s) /\ SubSeq(s, i, i + Len(sep) - 1) = sep
       THEN <<cur>> \o SplitFrom(s, sep, i + Len(sep), <<>>)
       ELSE SplitFrom(s, sep, i + 1, Append(cur, s[i]))

Split(s, sep) == SplitFrom(s, sep, 1, <<>>)

\* Array.prototype.slice(0, n)
SliceFirst(a, n) == SubSeq(a, 1, IF Len(a) < n THEN Len(a) ELSE n)

\* Array.prototype.join(sep)
RECURSIVE Join(_, _)
Join(a, sep) ==
  IF Len(a) = 0 THEN <<>>
  ELSE IF Len(a) = 1 THEN a[1]
  ELSE a[1] \o sep \o Join(Tail(a), sep)

\* name.split('- ')[1] is undefined when the name has no separator; the
\* following .split then throws a TypeError.
LabelThrows(name) == Len(Split(name, <<"-", " ">>)) < 2

\* name.split('- ')[1].split(' ').slice(0, 2).join(' ')
JoiningDateOf(name) ==
  Join(SliceFirst(Split(Split(name, <<"-", " ">>)[2], <<" ">>), 2), <<" ">>)

\* --------------------------------------------------------- upstream data
NameJune == <<"P", " ", "-", " ", "J", "n", " ", "2", "4", " ", "C">>
NameJuly == <<"P", " ", "-", " ", "J", "l", " ", "2", "4">>
NameBad  == <<"P", "-", "J", "n">>
LabelJune == <<"J", "n", " ", "2", "4">>
LabelJuly == <<"J", "l", " ", "2", "4">>

Entry(s, c, n) == [slug |-> s, member_count |-> c, name |-> n]

\* Bodies the community-list endpoint answers with.
ListBodies ==
  { << Entry("g1", 2, NameJune), Entry("g2", 1, NameJuly) >>,
    << Entry("g1", 3, NameJune) >>,
    << Entry("g3", 1, NameBad), Entry("g2", 1, NameJuly) >>,
    << Entry("g3", 0, NameJuly), Entry("g3", 1, NameJuly) >> }

\* The member-search endpoint: the non-empty pages of each group, in page
\* order; every page after the last is empty.
MemberPages(slug) ==
  CASE slug = "g1" -> << <<"u1">>, <<"u2">> >>
    [] slug = "g2" -> << <<"u1", "u3">> >>
    [] OTHER       -> << >>

PageBody(slug, p) ==
  IF p <= Len(MemberPages(slug)) THEN MemberPages(slug)[p] ELSE <<>>

RECURSIVE Flatten(_)
Flatten(ps) == IF Len(ps) = 0 THEN <<>> ELSE ps[1] \o Flatten(Tail(ps))

\* ------------------------------------------------------- initial stores
EmptyStore == [x \in {} |-> <<>>]
InitPrime ==
  { EmptyStore,
    ("u1" :> <<>>) @@ ("u2" :> <<LabelJuly>>),
    ("u2" :> <<LabelJuly, LabelJune>>) }
InitCommunity ==
  { <<>>, << [slug |-> "g1", countOfMembers |-> 2] >> }

NoDup(s) == \A i, j \in 1..Len(s) : s[i] = s[j] => i = j

\* -------------------------------------------------------------- state
VARIABLES
  prime,        \* PrimeData: id -> joiningDate, for the ids that have a document
  community,    \* CommunityData: the documents in insertion order
  pc,           \* where each handler invocation stands
  list,         \* communityDataNew of each invocation
  idx,          \* position of the for-of loop over communityDataNew
  existing,     \* existingEntry: index into community, 0 for null
  members,      \* the members fetchMembersBySlug returned
  pullLog,      \* the calls that pull made: [page, kind, data]
  merges,       \* updateOnboardingData invocations in progress
  resp,         \* the response sent, [status, data]
  runOf,        \* the number of the request each invocation serves
  started,      \* requests received so far
  faults,       \* failures injected so far
  overlapped,   \* two merges have been in progress at the same time
  upstream,     \* the bodies the community-list endpoint may answer with
  probe         \* what an observer recorded: the arguments of a call and the stores seen

vars == << prime, community, pc, list, idx, existing, members, pullLog,
           merges, resp, runOf, started, faults, overlapped, upstream, probe >>

NoResp == [status |-> 0, data |-> <<>>]
NoProbe == [pass |-> 0, members |-> <<>>, label |-> <<>>,
            before |-> EmptyStore, after1 |-> EmptyStore]

Init ==
  /\ prime \in InitPrime
  /\ community \in InitCommunity
  /\ pc = [r \in Reqs |-> "idle"]
  /\ list = [r \in Reqs |-> <<>>]
  /\ idx = [r \in Reqs |-> 1]
  /\ existing = [r \in Reqs |-> 0]
  /\ members = [r \in Reqs |-> <<>>]
  /\ pullLog = [r \in Reqs |-> <<>>]
  /\ merges = <<>>
  /\ resp = [r \in Reqs |-> NoResp]
  /\ runOf = [r \in Reqs |-> 0]
  /\ started = 0
  /\ faults = 0
  /\ overlapped = FALSE
  /\ upstream = ListBodies
  /\ probe = NoProbe

CanFail == faults < MaxFaults

\* ------------------------------------------------------------- helpers
\* CommunityData.findOne({ slug }): the first matching document, 0 for null.
FindOneSlug(coll, s) ==
  IF \E i \in 1..Len(coll) : coll[i].slug = s
  THEN CHOOSE i \in 1..Len(coll) :
         /\ coll[i].slug = s
         /\ \A j \in 1..(i - 1) : coll[j].slug # s
  ELSE 0

RemoveAt(q, k) == SubSeq(q, 1, k - 1) \o SubSeq(q, k + 1, Len(q))

Overlap(ms) == overlapped \/ Len(ms) >= 2

\* The part of the for-of loop of processCommunityData that follows one
\* entry: the next iteration awaits findOne, the end of the list returns to
\* the handler, which awaits PrimeData.find().
\* communityDataNew is gone once processCommunityData has returned.
LoopOn(r) ==
  IF idx[r] + 1 > Len(list[r])
  THEN /\ pc' = [pc EXCEPT ![r] = "read"]
       /\ idx' = [idx EXCEPT ![r] = 1]
       /\ list' = [list EXCEPT ![r] = <<>>]
  ELSE /\ pc' = [pc EXCEPT ![r] = "findSnap"]
       /\ idx' = [idx EXCEPT ![r] = idx[r] + 1]
       /\ UNCHANGED list

\* The rejection of processCommunityData reaches the handler outside its
\* try block: the handler's promise rejects and no response is sent.
Crash(r) == pc' = [pc EXCEPT ![r] = "crashed"]

\* ------------------------------------------------------------- handler
Free(r) == pc[r] \in {"idle", "done", "crashed"}

\* No request is being served.
Quiet == \A q \in Reqs : Free(q)

\* Header values are strings; a header that is absent reads as undefined,
\* which behaves like the empty string in both tests of the handler.
AllowedOrigin == <<"o">>
ApiKey == <<"k">>
Referers == { <<>>, AllowedOrigin, AllowedOrigin \o <<"/">>, <<"x">> }
ApiKeys == { <<>>, ApiKey, <<"z">> }

\* String.prototype.startsWith
StartsWith(s, pre) == Len(s) >= Len(pre) /\ SubSeq(s, 1, Len(pre)) = pre

\* if (!referer || !referer.startsWith(allowedOrigin)) {
\*   if (req.headers['x-api-key'] !== process.env.API_KEY) { return 403
RejectedOnMissingReferer(referer, key) == Len(referer) = 0 /\ key # ApiKey
Rejected(referer, key) ==
  (Len(referer) = 0 \/ ~StartsWith(referer, AllowedOrigin)) /\ key # ApiKey

\* GET /api/prime-data up to its first await, for a request whose query
\* passes validation or not, with its Referer and x-api-key headers, and
\* with a month or without.
Handle(r, valid, referer, key, month) ==
  /\ Free(r)
  /\ \A q \in Reqs : q < r => ~Free(q)
  /\ started' = started + 1
  /\ runOf' = [runOf EXCEPT ![r] = started + 1]
  /\ list' = [list EXCEPT ![r] = <<>>]
  /\ idx' = [idx EXCEPT ![r] = 1]
  /\ existing' = [existing EXCEPT ![r] = 0]
  /\ members' = [members EXCEPT ![r] = <<>>]
  /\ pullLog' = [pullLog EXCEPT ![r] = <<>>]
  /\ IF ~valid
     THEN /\ resp' = [resp EXCEPT ![r] = [status |-> 400, data |-> <<>>]]
          /\ pc' = [pc EXCEPT ![r] = "done"]
     ELSE IF Rejected(referer, key)
     THEN /\ resp' = [resp EXCEPT ![r] = [status |-> 403, data |-> <<>>]]
          /\ pc' = [pc EXCEPT ![r] = "done"]
     ELSE /\ resp' = [resp EXCEPT ![r] = NoResp]
          /\ pc' = [pc EXCEPT ![r] = IF month THEN "fetchList" ELSE "read"]
  /\ UNCHANGED << prime, community, merges, faults, overlapped, upstream >>

\* The invocations are interchangeable: a request is given the first one
\* that is free.  The request object is not looked at after the first await.
Receive(r) ==
  /\ \E valid \in BOOLEAN, referer \in Referers, key \in ApiKeys,
        month \in BOOLEAN :
       Handle(r, valid, referer, key, month)
  /\ UNCHANGED probe

\* fetchCommunityData resolves; processCommunityData enters its loop.
FetchListOk(r) ==
  /\ pc[r] = "fetchList"
  /\ \E body \in upstream :
       /\ list' = [list EXCEPT ![r] = body]
       /\ pc' = [pc EXCEPT ![r] = IF Len(body) = 0 THEN "read" ELSE "findSnap"]
  /\ idx' = [idx EXCEPT ![r] = 1]
  /\ UNCHANGED << prime, community, existing, members, pullLog, merges,
                  resp, runOf, started, faults, overlapped, upstream,
                  probe >>

\* axios.get throws (network error, rejected credentials): the catch block
\* returns [] and the loop has nothing to iterate.
FetchListFail(r) ==
  /\ pc[r] = "fetchList"
  /\ CanFail
  /\ faults' = faults + 1
  /\ list' = [list EXCEPT ![r] = <<>>]
  /\ idx' = [idx EXCEPT ![r] = 1]
  /\ pc' = [pc EXCEPT ![r] = "read"]
  /\ UNCHANGED << prime, community, existing, members, pullLog, merges,
                  resp, runOf, started, overlapped, upstream, probe >>

\* The call succeeds with a body that is not an array (a JSON object, null):
\* response.data is returned as it is and for-of throws a TypeError.
FetchListMalformed(r) ==
  /\ pc[r] = "fetchList"
  /\ CanFail
  /\ faults' = faults + 1
  /\ Crash(r)
  /\ UNCHANGED << prime, community, list, idx, existing, members,
                  pullLog, merges, resp, runOf, started, overlapped, upstream,
                  probe >>

\* ------------------------------------------------- fetchMembersBySlug
\* What the endpoint does on each call of one pull, in call order; calls
\* after the end of the plan are answered normally.
Kinds == {"ok", "e500", "eOther", "malformed"}
PlanSet == UNION { [1..n -> Kinds] : n \in 0..MaxPlan }
FaultsIn(plan) == Cardinality({ i \in 1..Len(plan) : plan[i] # "ok" })

\* The while (true) loop from page p on, with what it has accumulated.
\*   ok, empty body      -> break
\*   ok, non-empty body  -> concat, page++
\*   e500 / eOther       -> axios.get throws, the catch block breaks
\*   malformed           -> a non-empty string or an object: its length is
\*                          not 0 and concat appends the body as one element
\* members.concat(response.data)
ConcatOverwrites(mem, data) == data
Concat(mem, data) == mem \o data

\* The exits of the loop: an empty page, or any failure of the call.
BreaksOn500Only(kind, data) == kind = "e500" \/ (kind = "ok" /\ Len(data) = 0)
Breaks(kind, data) ==
  kind \in {"e500", "eOther"} \/ (kind = "ok" /\ Len(data) = 0)

RECURSIVE PullFrom(_, _, _, _, _)
PullFrom(slug, p, mem, log, plan) ==
  LET kind == IF Len(log) < Len(plan) THEN plan[Len(log) + 1] ELSE "ok"
      data == IF kind = "ok" THEN PageBody(slug, p)
              ELSE IF kind = "malformed" THEN <<Junk>> ELSE <<>>
      log2 == Append(log, [page |-> p, kind |-> kind, data |-> data])
  IN IF Breaks(kind, data) THEN [members |-> mem, log |-> log2]
     ELSE PullFrom(slug, p + 1, Concat(mem, data), log2, plan)

\* A plan is listed once: it ends with a failure and the pull used all of it.
Canonical(plan, log) ==
  /\ Len(plan) <= Len(log)
  /\ IF Len(plan) = 0 THEN TRUE ELSE plan[Len(plan)] # "ok"

\* let members = []; let page = 1; ... return members
FetchMembersBySlug(slug, plan) == PullFrom(slug, 1, <<>>, <<>>, plan)

\* existingEntry.countOfMembers !== member_count
CountChanged(doc, e) == doc.countOfMembers # e.member_count

\* CommunityData.findOne resolves and the counts are compared; a new or
\* changed group is pulled (the pull touches no shared state), its count is
\* set on the snapshot document and the save is awaited.
FindSnap(r) ==
  /\ pc[r] = "findSnap"
  /\ LET e == list[r][idx[r]]
         x == FindOneSlug(community, e.slug)
     IN IF x # 0 /\ ~CountChanged(community[x], e)
        THEN /\ LoopOn(r)
             /\ UNCHANGED << existing, members, pullLog, faults >>
        ELSE \E plan \in PlanSet :
               LET res == FetchMembersBySlug(e.slug, plan)
               IN /\ Canonical(plan, res.log)
                  /\ faults + FaultsIn(plan) <= MaxFaults
                  /\ faults' = faults + FaultsIn(plan)
                  /\ existing' = [existing EXCEPT ![r] = x]
                  /\ members' = [members EXCEPT ![r] = res.members]
                  /\ pullLog' = [pullLog EXCEPT ![r] = res.log]
                  /\ pc' = [pc EXCEPT ![r] = "saveSnap"]
                  /\ UNCHANGED << idx, list >>
  /\ UNCHANGED << prime, community, merges, resp, runOf, started,
                  overlapped, upstream, probe >>

\* CommunityData.findOne rejects: nothing catches it.
FindSnapFail(r) ==
  /\ pc[r] = "findSnap"
  /\ CanFail
  /\ faults' = faults + 1
  /\ Crash(r)
  /\ UNCHANGED << prime, community, list, idx, existing, members,
                  pullLog, merges, resp, runOf, started, overlapped, upstream,
                  probe >>

\* --------------------------------------- processCommunityData, second half
\* existingEntry.save() / newCommunityData.save()
SavedSnapshotNewOnly(r) ==
  LET e == list[r][idx[r]]
  IN IF existing[r] # 0 THEN community
     ELSE Append(community, [slug |-> e.slug, countOfMembers |-> e.member_count])
SavedSnapshot(r) ==
  LET e == list[r][idx[r]]
  IN IF existing[r] # 0
     THEN [community EXCEPT ![existing[r]].countOfMembers = e.member_count]
     ELSE Append(community, [slug |-> e.slug, countOfMembers |-> e.member_count])

\* updateOnboardingData(members, joiningDate) up to its first await: an
\* empty member list returns at once, otherwise findOne is awaited.
Launch(run, mem, label) ==
  IF Len(mem) = 0 THEN merges
  ELSE Append(merges, [run |-> run, members |-> mem, i |-> 1,
                       label |-> label, phase |-> "find", doc |-> <<>>])

Launched(r, label) == Launch(runOf[r], members[r], label)

\* The block of the new or changed group is left: its existingEntry and
\* members are gone.
OutOfScope(r) ==
  /\ existing' = [existing EXCEPT ![r] = 0]
  /\ members' = [members EXCEPT ![r] = <<>>]
  /\ pullLog' = [pullLog EXCEPT ![r] = <<>>]

\* The snapshot save resolves; the label is derived, the merge is called
\* without await, and the loop goes on.
SaveSnap(r) ==
  /\ pc[r] = "saveSnap"
  /\ community' = SavedSnapshot(r)
  /\ LET e == list[r][idx[r]]
     IN IF LabelThrows(e.name)
        THEN /\ Crash(r)
             /\ UNCHANGED << idx, list, merges, overlapped >>
        ELSE /\ merges' = Launched(r, JoiningDateOf(e.name))
             /\ overlapped' = Overlap(Launched(r, JoiningDateOf(e.name)))
             /\ LoopOn(r)
  /\ OutOfScope(r)
  /\ UNCHANGED << prime, resp, runOf, started, faults, upstream, probe >>

\* The snapshot save rejects: nothing catches it.
SaveSnapFail(r) ==
  /\ pc[r] = "saveSnap"
  /\ CanFail
  /\ faults' = faults + 1
  /\ Crash(r)
  /\ OutOfScope(r)
  /\ UNCHANGED << prime, community, list, idx, merges, resp, runOf, started,
                  overlapped, upstream, probe >>

\* ------------------------------------------------ updateOnboardingData
MemberId(m) == m.members[m.i]

\* The for-of loop over members moves on; after the last member the
\* invocation is over.
Advance(k) ==
  LET m == merges[k]
  IN IF m.i + 1 > Len(m.members) THEN RemoveAt(merges, k)
     ELSE [merges EXCEPT ![k] = [m EXCEPT !.i = m.i + 1, !.phase = "find",
                                          !.doc = <<>>]]

\* existingRecord.joiningDate.includes(joiningDate)
IncludesHead(s, x) == Len(s) > 0 /\ s[1] = x
Includes(s, x) == \E j \in 1..Len(s) : s[j] = x

\* if (existingRecord) { if (!existingRecord.joiningDate.includes(...)) {
NeedsSaveNoCheck(store, id, label) == id \in DOMAIN store
NeedsSaveUpsert(store, id, label) ==
  id \notin DOMAIN store \/ ~Includes(store[id], label)
NeedsSave(store, id, label) ==
  id \in DOMAIN store /\ ~Includes(store[id], label)

\* The joiningDate of the document findOne returned.
Labels(store, id) == IF id \in DOMAIN store THEN store[id] ELSE <<>>

\* joiningDate.unshift(joiningDate)
Unshift(s, x) == <<x>> \o s

\* PrimeData.findOne({ id }) resolves.
MergeFind(k) ==
  /\ k \in 1..Len(merges)
  /\ merges[k].phase = "find"
  /\ LET m == merges[k]
         id == MemberId(m)
     IN IF NeedsSave(prime, id, m.label)
        THEN merges' = [merges EXCEPT ![k] =
                          [m EXCEPT !.phase = "save",
                                    !.doc = Unshift(Labels(prime, id), m.label)]]
        ELSE merges' = Advance(k)
  /\ overlapped' = Overlap(merges')
  /\ UNCHANGED << prime, community, pc, list, idx, existing, members,
                  pullLog, resp, runOf, started, faults, upstream,
                  probe >>

\* The document changed in the store since this invocation read it.
Stale(m) == Labels(prime, MemberId(m)) # Tail(m.doc)

\* The store after existingRecord.save(): unshift marks the whole array as
\* modified, so the save sets the array to what the invocation holds.
SavedByPush(store, m) ==
  (MemberId(m) :> Unshift(Labels(store, MemberId(m)), m.label)) @@ store
Saved(store, m) == (MemberId(m) :> m.doc) @@ store

\* existingRecord.save() resolves.
MergeSave(k) ==
  /\ k \in 1..Len(merges)
  /\ merges[k].phase = "save"
  /\ prime' = Saved(prime, merges[k])
  /\ merges' = Advance(k)
  /\ overlapped' = Overlap(merges')
  /\ UNCHANGED << community, pc, list, idx, existing, members, pullLog,
                  resp, runOf, started, faults, upstream, probe >>

\* A store operation of the merge rejects: the invocation ends with a
\* rejection that nothing awaits.
MergeFail(k) ==
  /\ k \in 1..Len(merges)
  /\ CanFail
  /\ faults' = faults + 1
  /\ merges' = RemoveAt(merges, k)
  /\ overlapped' = Overlap(merges')
  /\ UNCHANGED << prime, community, pc, list, idx, existing, members,
                  pullLog, resp, runOf, started, upstream, probe >>

\* The save of a stale document is refused by the store's document version
\* check; the invocation ends the same way.
MergeVersionError(k) ==
  /\ k \in 1..Len(merges)
  /\ merges[k].phase = "save"
  /\ Stale(merges[k])
  /\ merges' = RemoveAt(merges, k)
  /\ overlapped' = Overlap(merges')
  /\ UNCHANGED << prime, community, pc, list, idx, existing, members,
                  pullLog, resp, runOf, started, faults, upstream, probe >>

\* ------------------------------------------------- handler, final read
\* PrimeData.find() resolves.
Read(r) ==
  /\ pc[r] = "read"
  /\ resp' = [resp EXCEPT ![r] =
                IF DOMAIN prime = {} THEN [status |-> 404, data |-> <<>>]
                ELSE [status |-> 200, data |-> prime]]
  /\ pc' = [pc EXCEPT ![r] = "done"]
  /\ UNCHANGED << prime, community, list, idx, existing, members,
                  pullLog, merges, runOf, started, faults, overlapped, upstream,
                  probe >>

\* PrimeData.find() rejects: the catch block answers 500.
ReadFail(r) ==
  /\ pc[r] = "read"
  /\ CanFail
  /\ faults' = faults + 1
  /\ resp' = [resp EXCEPT ![r] = [status |-> 500, data |-> <<>>]]
  /\ pc' = [pc EXCEPT ![r] = "done"]
  /\ UNCHANGED << prime, community, list, idx, existing, members,
                  pullLog, merges, runOf, started, overlapped, upstream,
                  probe >>

\* ------------------------------------------------------ specification
\* One client: a request is sent after the previous one is over.
Serve(r) == Quiet /\ started < MaxRuns /\ Receive(r)

Next ==
  \/ \E r \in Reqs : Serve(r)
  \/ \E r \in Reqs : FetchListOk(r)
  \/ \E r \in Reqs : FetchListFail(r)
  \/ \E r \in Reqs : FetchListMalformed(r)
  \/ \E r \in Reqs : FindSnap(r)
  \/ \E r \in Reqs : FindSnapFail(r)
  \/ \E r \in Reqs : SaveSnap(r)
  \/ \E r \in Reqs : SaveSnapFail(r)
  \/ \E r \in Reqs : Read(r)
  \/ \E r \in Reqs : ReadFail(r)
  \/ \E k \in 1..Len(merges) : MergeFind(k)
  \/ \E k \in 1..Len(merges) : MergeSave(k)
  \/ \E k \in 1..Len(merges) : MergeFail(k)
  \/ \E k \in 1..Len(merges) : MergeVersionError(k)

Spec == Init /\ [][Next]_vars

TypeOK ==
  /\ \A r \in Reqs : pc[r] \in {"idle", "fetchList", "findSnap", "saveSnap", "read", "done", "crashed"}
  /\ faults \in 0..MaxFaults
  /\ started \in 0..(MaxRuns + MaxArrivals)

\* --------------------------------------------- overlapping requests
\* Two clients, no failure of the upstream or the store; the member count
\* of group g2 changes between two list calls.
OverlapBodies ==
  { << Entry("g2", 1, NameJuly) >>, << Entry("g2", 2, NameJuly) >> }

InitOverlap ==
  /\ prime = ("u1" :> <<>>) @@ ("u2" :> <<LabelJuly>>)
  /\ community = <<>>
  /\ pc = [r \in Reqs |-> "idle"]
  /\ list = [r \in Reqs |-> <<>>]
  /\ idx = [r \in Reqs |-> 1]
  /\ existing = [r \in Reqs |-> 0]
  /\ members = [r \in Reqs |-> <<>>]
  /\ pullLog = [r \in Reqs |-> <<>>]
  /\ merges = <<>>
  /\ resp = [r \in Reqs |-> NoResp]
  /\ runOf = [r \in Reqs |-> 0]
  /\ started = 0
  /\ faults = MaxFaults
  /\ overlapped = FALSE
  /\ upstream = OverlapBodies
  /\ probe = NoProbe

\* A request arrives whether or not another one is being served.
Arrive(r) == started < MaxArrivals /\ Receive(r)

NextOverlap ==
  \/ \E r \in Reqs : Arrive(r)
  \/ \E r \in Reqs : FetchListOk(r)
  \/ \E r \in Reqs : FindSnap(r)
  \/ \E r \in Reqs : SaveSnap(r)
  \/ \E r \in Reqs : Read(r)
  \/ \E k \in 1..Len(merges) : MergeFind(k)
  \/ \E k \in 1..Len(merges) : MergeSave(k)
  \/ \E k \in 1..Len(merges) : MergeVersionError(k)

SpecOverlap == InitOverlap /\ [][NextOverlap]_vars

\* ------------------------------------- the merge called twice in a row
Ids == {"u1", "u2", "u3"}
JoinLabels == {LabelJune, LabelJuly}
MemberLists == UNION { [1..n -> Ids] : n \in 0..MaxMembers }
LabelSeqs == { <<>>, <<LabelJune>>, <<LabelJuly, LabelJune>>,
               <<LabelJune, LabelJune>> }
MergeStores == UNION { [D -> LabelSeqs] : D \in SUBSET {"u1", "u2"} }

InitMerge ==
  /\ prime \in MergeStores
  /\ community = <<>>
  /\ pc = [r \in Reqs |-> "idle"]
  /\ list = [r \in Reqs |-> <<>>]
  /\ idx = [r \in Reqs |-> 1]
  /\ existing = [r \in Reqs |-> 0]
  /\ members = [r \in Reqs |-> <<>>]
  /\ pullLog = [r \in Reqs |-> <<>>]
  /\ merges = <<>>
  /\ resp = [r \in Reqs |-> NoResp]
  /\ runOf = [r \in Reqs |-> 0]
  /\ started = 0
  /\ faults = 0
  /\ overlapped = FALSE
  /\ upstream = {}
  /\ probe = NoProbe

\* updateOnboardingData(members, joinLabel), first call.
CallMerge ==
  /\ probe.pass = 0
  /\ \E mem \in MemberLists, label \in JoinLabels :
       /\ merges' = Launch(0, mem, label)
       /\ probe' = [pass |-> 1, members |-> mem, label |-> label,
                    before |-> prime, after1 |-> EmptyStore]
  /\ UNCHANGED << prime, community, pc, list, idx, existing, members, pullLog,
                  resp, runOf, started, faults, overlapped, upstream >>

\* The first call has completed: the same call again.
CallAgain ==
  /\ probe.pass = 1
  /\ merges = <<>>
  /\ merges' = Launch(0, probe.members, probe.label)
  /\ probe' = [probe EXCEPT !.pass = 2, !.after1 = prime]
  /\ UNCHANGED << prime, community, pc, list, idx, existing, members, pullLog,
                  resp, runOf, started, faults, overlapped, upstream >>

NextMerge ==
  \/ CallMerge
  \/ CallAgain
  \/ \E k \in 1..Len(merges) : MergeFind(k)
  \/ \E k \in 1..Len(merges) : MergeSave(k)

SpecMerge == InitMerge /\ [][NextMerge]_vars

\* --------------------------------------- requests with their headers
\* One client, no failure of the upstream or the store; the request object
\* of the last request is kept, with the snapshots stored when it arrived.
InitAuth ==
  /\ prime \in InitPrime
  /\ community \in InitCommunity
  /\ pc = [r \in Reqs |-> "idle"]
  /\ list = [r \in Reqs |-> <<>>]
  /\ idx = [r \in Reqs |-> 1]
  /\ existing = [r \in Reqs |-> 0]
  /\ members = [r \in Reqs |-> <<>>]
  /\ pullLog = [r \in Reqs |-> <<>>]
  /\ merges = <<>>
  /\ resp = [r \in Reqs |-> NoResp]
  /\ runOf = [r \in Reqs |-> 0]
  /\ started = 0
  /\ faults = MaxFaults
  /\ overlapped = FALSE
  /\ upstream = ListBodies
  /\ probe = NoProbe

Request(r) ==
  /\ Quiet
  /\ started < MaxRuns
  /\ \E valid \in BOOLEAN, referer \in Referers, key \in ApiKeys,
        month \in BOOLEAN :
       /\ Handle(r, valid, referer, key, month)
       /\ probe' = [pass |-> started + 1, valid |-> valid, referer |-> referer,
                    key |-> key, month |-> month, community |-> community]

NextAuth ==
  \/ \E r \in Reqs : Request(r)
  \/ \E r \in Reqs : FetchListOk(r)
  \/ \E r \in Reqs : FindSnap(r)
  \/ \E r \in Reqs : SaveSnap(r)
  \/ \E r \in Reqs : Read(r)
  \/ \E k \in 1..Len(merges) : MergeFind(k)
  \/ \E k \in 1..Len(merges) : MergeSave(k)
  \/ \E k \in 1..Len(merges) : MergeVersionError(k)

SpecAuth == InitAuth /\ [][NextAuth]_vars

\* ------------------------------------------------ group names at large
\* One client, no failure; the list holds one group, new or changed, whose
\* name is any string over a dash, a space and a letter.
Alphabet == {"-", " ", "a"}
Names == UNION { [1..n -> Alphabet] : n \in 0..MaxName }

InitLabel ==
  /\ prime = ("u1" :> <<>>) @@ ("u2" :> <<LabelJuly>>)
  /\ community \in InitCommunity
  /\ pc = [r \in Reqs |-> "idle"]
  /\ list = [r \in Reqs |-> <<>>]
  /\ idx = [r \in Reqs |-> 1]
  /\ existing = [r \in Reqs |-> 0]
  /\ members = [r \in Reqs |-> <<>>]
  /\ pullLog = [r \in Reqs |-> <<>>]
  /\ merges = <<>>
  /\ resp = [r \in Reqs |-> NoResp]
  /\ runOf = [r \in Reqs |-> 0]
  /\ started = 0
  /\ faults = MaxFaults
  /\ overlapped = FALSE
  /\ \E n \in Names : upstream = { << Entry("g1", 3, n) >> }
  /\ probe = NoProbe

NextLabel ==
  \/ \E r \in Reqs : Serve(r)
  \/ \E r \in Reqs : FetchListOk(r)
  \/ \E r \in Reqs : FindSnap(r)
  \/ \E r \in Reqs : SaveSnap(r)
  \/ \E r \in Reqs : Read(r)
  \/ \E k \in 1..Len(merges) : MergeFind(k)
  \/ \E k \in 1..Len(merges) : MergeSave(k)

SpecLabel == InitLabel /\ [][NextLabel]_vars

\* ------------------------------------------- the same period, again
\* One client that asks for the same period several times; membership and
\* records stay as they are, the member endpoint may fail.
InitRetry ==
  /\ prime \in InitPrime
  /\ community = <<>>
  /\ pc = [r \in Reqs |-> "idle"]
  /\ list = [r \in Reqs |-> <<>>]
  /\ idx = [r \in Reqs |-> 1]
  /\ existing = [r \in Reqs |-> 0]
  /\ members = [r \in Reqs |-> <<>>]
  /\ pullLog = [r \in Reqs |-> <<>>]
  /\ merges = <<>>
  /\ resp = [r \in Reqs |-> NoResp]
  /\ runOf = [r \in Reqs |-> 0]
  /\ started = 0
  /\ faults = 0
  /\ overlapped = FALSE
  /\ upstream = { << Entry("g1", 2, NameJune) >> }
  /\ probe = NoProbe

\* The next request is sent when the previous one is over and its merge too.
Retry(r) == Quiet /\ merges = <<>> /\ started < MaxArrivals /\ Receive(r)

NextRetry ==
  \/ \E r \in Reqs : Retry(r)
  \/ \E r \in Reqs : FetchListOk(r)
  \/ \E r \in Reqs : FindSnap(r)
  \/ \E r \in Reqs : SaveSnap(r)
  \/ \E r \in Reqs : Read(r)
  \/ \E k \in 1..Len(merges) : MergeFind(k)
  \/ \E k \in 1..Len(merges) : MergeSave(k)

SpecRetry == InitRetry /\ [][NextRetry]_vars

\* ===================================================================
\* Properties
\* ===================================================================

\* C1 -- No duplicate labels: from a store whose label sequences are
\* duplicate-free, as long as the merges ran one after another (no two of
\* them were ever in progress together), every PersonRecord's label
\* sequence holds each label at most once.
C1_NoDuplicateLabels ==
  ~overlapped => \A id \in DOMAIN prime : NoDup(prime[id])

\* A merge has prepended a label to a record that already had another one,
\* with no two merges ever in progress together.
C1_Witness ==
  /\ ~overlapped
  /\ merges = <<>>
  /\ \E id \in DOMAIN prime : prime[id] = <<LabelJune, LabelJuly>>

\* C2 -- Idempotent merge: running updateOnboardingData(members, joinLabel)
\* to completion a second time leaves every label sequence as the first
\* run left it.
C2_IdempotentMerge == probe.pass = 2 => prime = probe.after1

\* The second run is over and the first had changed the store.
C2_Witness ==
  /\ probe.pass = 2
  /\ merges = <<>>
  /\ probe.before # probe.after1
  /\ Len(probe.members) = 2

\* C3 -- The response reflects the request's reconciliation: when the
\* handler reads the PersonRecord set, every merge started by its run has
\* completed.
C3_ResponseReflectsRun ==
  \A r \in Reqs :
    pc[r] = "read" => \A k \in 1..Len(merges) : merges[k].run # runOf[r]

\* The slug of the entry has a stored snapshot with the entry's count.
HasSnapshot(e) ==
  \E i \in 1..Len(community) :
    /\ community[i].slug = e.slug
    /\ community[i].countOfMembers = e.member_count

Moves(r) == pc'[r] # pc[r] \/ idx'[r] # idx[r]

\* C4 -- No-op on stable count: processing an entry whose slug has a stored
\* snapshot with an equal count issues no member-page request, writes no
\* snapshot and mutates no PersonRecord (it starts no merge).
C4_NoOpOnStableCount ==
  [][\A r \in Reqs :
       (pc[r] = "findSnap" /\ HasSnapshot(list[r][idx[r]]) /\ Moves(r))
         => /\ pc'[r] # "saveSnap"
            /\ pullLog'[r] = <<>>
            /\ community' = community
            /\ prime' = prime
            /\ merges' = merges]_vars

\* C5 -- Per-group failure isolation: a failure while processing one entry
\* does not prevent a later entry from being processed, so a run that
\* failed leaves no later new or changed group behind.
C5_FailureIsolation ==
  \A r \in Reqs :
    pc[r] = "crashed" =>
      \A j \in (idx[r] + 1)..Len(list[r]) : HasSnapshot(list[r][j])

\* C6 -- Reconciliation failures never surface: whatever fails during
\* processCommunityData, the handler goes on to read the PersonRecord set
\* and answers; no invocation ends without a response.
C6_FailuresNeverSurface == \A r \in Reqs : pc[r] # "crashed"

AllOk(log) == \A i \in 1..Len(log) : log[i].kind = "ok"
Failure(entry) == entry.kind \in {"e500", "eOther"}

\* The bodies the first n calls of the log were answered with, concatenated.
RECURSIVE Accumulated(_, _)
Accumulated(log, n) ==
  IF n = 0 THEN <<>> ELSE Accumulated(log, n - 1) \o log[n].data

\* C7 -- Pagination termination: when the endpoint answers N non-empty
\* pages and then an empty one, the pull requests pages 1..N+1 in order,
\* makes exactly N+1 calls and returns the concatenation of the N pages.
C7_PaginationTermination ==
  \A r \in Reqs :
    (pc[r] = "saveSnap" /\ AllOk(pullLog[r])) =>
      LET pages == MemberPages(list[r][idx[r]].slug)
      IN /\ Len(pullLog[r]) = Len(pages) + 1
         /\ \A i \in 1..Len(pullLog[r]) : pullLog[r][i].page = i
         /\ members[r] = Flatten(pages)

\* A pull of two non-empty pages and the empty third has returned.
C7_Witness ==
  \E r \in Reqs :
    /\ pc[r] = "saveSnap"
    /\ AllOk(pullLog[r])
    /\ Len(pullLog[r]) = 3
    /\ members[r] = <<"u1", "u2">>

\* C8 -- Pager failure is soft exhaustion: when the call for page k fails,
\* the pull makes no further call, raises nothing to its caller (the run
\* goes on to the snapshot save) and returns what pages 1..k-1 gave.
C8_SoftExhaustion ==
  \A r \in Reqs : \A i \in 1..Len(pullLog[r]) :
    Failure(pullLog[r][i]) =>
      /\ pc[r] = "saveSnap"
      /\ i = Len(pullLog[r])
      /\ members[r] = Accumulated(pullLog[r], i - 1)

\* The call for page 2 failed after page 1 had given a member.
C8_Witness ==
  \E r \in Reqs :
    /\ pc[r] = "saveSnap"
    /\ Len(pullLog[r]) = 2
    /\ Failure(pullLog[r][2])
    /\ members[r] = <<"u1">>

\* C9 -- A failed community-list fetch aborts reconciliation with no partial
\* writes: the step in which the list call fails writes no snapshot and no
\* PersonRecord, starts no pull and no merge, and leaves the handler at its
\* read of the persisted set.
C9_ListFailureAborts ==
  [][\A r \in Reqs :
       (pc[r] = "fetchList" /\ pc'[r] # "fetchList" /\ list'[r] = <<>>)
         => /\ pc'[r] = "read"
            /\ community' = community
            /\ prime' = prime
            /\ merges' = merges]_vars

\* C10 -- Reconciliation never creates or deletes a PersonRecord: no step
\* changes the set of identifiers in the store, and no save is ever pending
\* for a member that has no record.
C10_NoCreateNoDelete ==
  [][/\ DOMAIN prime' = DOMAIN prime
     /\ \A k \in 1..Len(merges') :
          merges'[k].phase = "save" => MemberId(merges'[k]) \in DOMAIN prime']_vars

\* A merge has passed a member that has no record.
C10_Witness ==
  \E k \in 1..Len(merges) :
    /\ merges[k].i = 2
    /\ merges[k].members[1] \notin DOMAIN prime
    /\ DOMAIN prime # {}

\* The invocation that serves the recorded request.
Serving(r) == probe.pass > 0 /\ runOf[r] = probe.pass

\* The recorded request has neither a Referer that starts with the allowed
\* origin nor an x-api-key equal to the configured key.
Unauthenticated ==
  ~StartsWith(probe.referer, AllowedOrigin) /\ probe.key # ApiKey

\* The invocation is over without having called the upstream, read or
\* written a snapshot, or started a merge.
EngineUntouched(r) ==
  /\ pc[r] = "done"
  /\ list[r] = <<>>
  /\ pullLog[r] = <<>>
  /\ community = probe.community
  /\ \A k \in 1..Len(merges) : merges[k].run # runOf[r]

\* C11 (as stated) -- An unauthenticated request never reaches the engine:
\* a request with neither a Referer starting with the allowed origin nor
\* the configured x-api-key is answered 403, and no upstream call is made
\* and no snapshot or PersonRecord is read or written for it.
C11_Unauthenticated403 ==
  \A r \in Reqs :
    (Serving(r) /\ Unauthenticated) =>
      resp[r].status = 403 /\ EngineUntouched(r)

\* C11 (amended) -- An unauthenticated request never reaches the engine: it
\* is answered 400 when its query fails validation and 403 otherwise, and
\* in both cases no upstream call is made and no snapshot or PersonRecord
\* is read or written for it.
C11_UnauthenticatedRejected ==
  \A r \in Reqs :
    (Serving(r) /\ Unauthenticated) =>
      /\ resp[r].status = IF probe.valid THEN 403 ELSE 400
      /\ EngineUntouched(r)

\* A valid request for a month, with a foreign Referer and a wrong key, was
\* answered 403 over a store that holds records.
C11_Witness ==
  \E r \in Reqs :
    /\ Serving(r)
    /\ probe.valid /\ probe.month
    /\ probe.referer = <<"x">> /\ probe.key = <<"z">>
    /\ resp[r].status = 403
    /\ DOMAIN prime # {}

\* C12 -- One snapshot per slug: in every reachable state, also when two
\* overlapping requests both see the same unknown slug, CommunityData holds
\* at most one document for each slug.
C12_OneSnapshotPerSlug ==
  \A i, j \in 1..Len(community) :
    community[i].slug = community[j].slug => i = j

\* How many times x occurs in s.
Occurrences(s, x) == Cardinality({ j \in 1..Len(s) : s[j] = x })

\* C13 -- Overlapping runs do not double-append: when the merges of two
\* overlapping requests add the same label to the same existing person, no
\* label sequence ever holds the label twice, and once the merges are over
\* the person's sequence holds it exactly once.
C13_NoDoubleAppend ==
  /\ \A id \in DOMAIN prime : Occurrences(prime[id], LabelJuly) <= 1
  /\ (overlapped /\ merges = <<>>) => Occurrences(prime["u1"], LabelJuly) = 1

\* One of two racing invocations has saved the label on u1, the other of
\* another request still holds its own copy with the label, about to save.
C13_Witness ==
  \E k \in 1..Len(merges) :
    /\ merges[k].phase = "save"
    /\ MemberId(merges[k]) = "u1"
    /\ merges[k].doc = <<LabelJuly>>
    /\ prime["u1"] = <<LabelJuly>>
    /\ overlapped

\* C14 -- Ordering invariant: whenever a merge changes a PersonRecord's
\* label sequence, the new sequence is one new label followed by the
\* sequence as it was; no label that was present is removed or reordered.
C14_PrependOnly ==
  [][\A id \in DOMAIN prime :
       prime'[id] # prime[id] =>
         /\ Len(prime'[id]) = Len(prime[id]) + 1
         /\ Tail(prime'[id]) = prime[id]]_vars

\* The text that follows the first "- " of a name that has one.
AfterSeparator(s) ==
  LET at == CHOOSE i \in 1..(Len(s) - 1) :
              /\ s[i] = "-" /\ s[i + 1] = " "
              /\ \A j \in 1..(i - 1) : ~(s[j] = "-" /\ s[j + 1] = " ")
  IN SubSeq(s, at + 2, Len(s))

\* The whitespace-separated tokens of a text: its maximal runs of
\* characters other than the space.
RECURSIVE TokensFrom(_, _, _)
TokensFrom(s, i, cur) ==
  LET done == IF Len(cur) = 0 THEN <<>> ELSE <<cur>>
  IN IF i > Len(s) THEN done
     ELSE IF s[i] = " " THEN done \o TokensFrom(s, i + 1, <<>>)
     ELSE TokensFrom(s, i + 1, Append(cur, s[i]))

FirstTwoTokens(text) == Join(SliceFirst(TokensFrom(text, 1, <<>>), 2), <<" ">>)

\* C15 -- Join-label derivation: for every entry name that contains "- ",
\* the label of the merge started for the group, new or changed, is the
\* first two whitespace-separated tokens of the text that follows the
\* separator, joined by one space.
C15_LabelIsFirstTwoTokens ==
  \A body \in upstream : \A k \in 1..Len(merges) :
    merges[k].label = FirstTwoTokens(AfterSeparator(body[1].name))

\* C16 -- Per-group step order: the snapshot of a new or changed group is
\* written only after the merge of the members pulled for it has completed,
\* so at the step that writes the snapshot every pulled member that has a
\* record already carries the group's label.
C16_SnapshotAfterMerge ==
  [][\A r \in Reqs :
       (pc[r] = "saveSnap" /\ community' # community
          /\ ~LabelThrows(list[r][idx[r]].name))
         => \A j \in 1..Len(members[r]) :
              members[r][j] \in DOMAIN prime =>
                Includes(prime[members[r][j]],
                         JoiningDateOf(list[r][idx[r]].name))]_vars

\* C17 -- Within one run no two merges are in progress at the same time:
\* at any moment at most one updateOnboardingData invocation started by a
\* run has not yet finished.
C17_OneMergeAtATime ==
  \A k1, k2 \in 1..Len(merges) :
    merges[k1].run = merges[k2].run => k1 = k2

\* C18 -- A malformed member page ends the pull: when the call for page k
\* succeeds with a body that is not a sequence of member records, the pull
\* makes no further call and returns what pages 1..k-1 gave.
C18_MalformedPageEndsPull ==
  \A r \in Reqs : \A i \in 1..Len(pullLog[r]) :
    pullLog[r][i].kind = "malformed" =>
      /\ i = Len(pullLog[r])
      /\ members[r] = Accumulated(pullLog[r], i - 1)

\* The last entry of a list for the slug of its entry j.
LastFor(l, j) ==
  l[CHOOSE m \in j..Len(l) :
      /\ l[m].slug = l[j].slug
      /\ \A n \in (m + 1)..Len(l) : l[n].slug # l[j].slug]

\* C19 -- The snapshot tracks the last-observed count: at the step in which
\* a run returns to the handler, every slug of its list has a snapshot whose
\* count is the member_count of the last entry for that slug; and no step
\* removes a snapshot or changes one of a slug that is not being saved.
C19_SnapshotTracksCount ==
  [][/\ \A r \in Reqs :
          (pc[r] \in {"findSnap", "saveSnap"} /\ pc'[r] = "read") =>
            \A j \in 1..Len(list[r]) :
              \E i \in 1..Len(community') :
                /\ community'[i].slug = list[r][j].slug
                /\ community'[i].countOfMembers =
                     LastFor(list[r], j).member_count
     /\ Len(community') >= Len(community)
     /\ \A i \in 1..Len(community) :
          /\ community'[i].slug = community[i].slug
          /\ community'[i] # community[i] =>
               \E r \in Reqs : /\ pc[r] = "saveSnap"
                               /\ list[r][idx[r]].slug = community[i].slug]_vars

\* A run over a list that names one slug twice, with two counts, has
\* returned and the snapshot holds the second count.
C19_Witness ==
  \E r \in Reqs :
    /\ pc[r] = "read"
    /\ community = << [slug |-> "g3", countOfMembers |-> 1] >>

\* C20 -- A truncated pull is made up later: whenever the stored snapshot
\* of a group holds the upstream count and no merge is in progress, every
\* member of the group that has a PersonRecord carries the group's label.
C20_TruncatedPullMadeUp ==
  \A body \in upstream : \A j \in 1..Len(body) :
    (HasSnapshot(body[j]) /\ merges = <<>>) =>
      LET all == Flatten(MemberPages(body[j].slug))
      IN \A n \in 1..Len(all) :
           all[n] \in DOMAIN prime =>
             Includes(prime[all[n]], JoiningDateOf(body[j].name))

====
